---- MODULE Spec2Model ----
(***************************************************************************)
(* go-htmx: the per-request ResponseHeaders record, its setters, the       *)
(* serializer (AddHeaders, HeaderValue, eventTriggersToHeaderValue) and    *)
(* the middleware's responseWriterWrapper that flushes the record into the *)
(* outgoing header collection exactly once.                                *)
(***************************************************************************)
EXTENDS Integers, Sequences, FiniteSets, TLC

(***************************************************************************)
(* Bounds of the model.                                                    *)
(***************************************************************************)
\* setter calls made by the handler chain of one request
MaxCalls == 2
\* Write / WriteHeader calls made by the handler chain of one request
MaxWrites == 2
\* direct AddHeaders calls on a hand-built record (serializer specification)
MaxAdds == 1

(***************************************************************************)
(* Values.  JSON is json.RawMessage: NilJSON is the nil slice, "" the      *)
(* empty non-nil slice, every other string the bytes themselves.           *)
(***************************************************************************)
NilJSON == "<nil>"

\* the bytes that are not a JSON text (json.Marshal rejects them)
InvalidJSON == {"bad"}

\* the data (type any) handed to Trigger*, and to Location as Values:
\* nil, the int 1 and a channel (which cannot be marshalled)
NilData == "nil"
Datas == {NilData, "int", "chan"}

\* json.Marshal of a value of type any
jsonMarshal(data) ==
    CASE data = "int"    -> [err |-> FALSE, bytes |-> "1"]
      [] data = NilData  -> [err |-> FALSE, bytes |-> "null"]
      [] OTHER           -> [err |-> TRUE,  bytes |-> NilJSON]

Events == {"", "a"}
URLs == {"", "/a", "/b"}
\* SameOriginURL: PreventPushURL and PreventReplaceURL add the token "false"
SameOriginURLs == {"", "/a"}
Selectors == {"", "#main", "#nav"}
SwapStrategies == {"", "innerHTML", "outerHTML"}

\* type Headers map[string]string: the empty map
NoHeaders == <<>>

(***************************************************************************)
(* The HX response header names, in the order AddHeaders writes them.      *)
(***************************************************************************)
HXNames == <<"HX-Location", "HX-Push-Url", "HX-Redirect", "HX-Refresh",
             "HX-Replace-Url", "HX-Reswap", "HX-Retarget", "HX-Reselect",
             "HX-Trigger", "HX-Trigger-After-Settle", "HX-Trigger-After-Swap">>

HXNameSet == {HXNames[i] : i \in 1..Len(HXNames)}

\* http.Header of a fresh response: no value under any name
EmptyHeader == [n \in HXNameSet |-> <<>>]

\* http.Header.Set, which replaces the values of the name
HeaderAdd_Set(hdr, name, value) == [hdr EXCEPT ![name] = <<value>>]

\* http.Header.Add: append the value to the values of the name
HeaderAdd(hdr, name, value) == [hdr EXCEPT ![name] = Append(@, value)]

(***************************************************************************)
(* Location (the LocationHeader of global.go) and ResponseHeaders.         *)
(***************************************************************************)
EmptyLocation ==
    [Path |-> "", Source |-> "", Event |-> "", Handler |-> "", Target |-> "",
     Swap |-> "", Values |-> NilJSON, Headers |-> NoHeaders]

\* ResponseHeaders as NewMiddleware builds it: zero values, three empty maps
NewResponseHeaders ==
    [Location |-> EmptyLocation, PushURL |-> "", Redirect |-> "",
     Refresh |-> FALSE, ReplaceURL |-> "", Reswap |-> "", Retarget |-> "",
     Reselect |-> "", Trigger |-> <<>>, TriggerAfterSettle |-> <<>>,
     TriggerAfterSwap |-> <<>>]

\* a header value: either plain text or a JSON text, the latter kept as the
\* JSON value it denotes (an object: member name -> member value)
Plain(s) == [plain |-> s]
JSONText(obj) == [json |-> obj]


(***************************************************************************)
(* The serializer.                                                         *)
(***************************************************************************)
LocationKeys == {"path", "source", "event", "handler", "target", "swap",
                 "values", "headers"}

\* the member a struct tag names, and whether `omitempty` leaves it out
LocationMember(loc, k) ==
    CASE k = "path"    -> loc.Path
      [] k = "source"  -> loc.Source
      [] k = "event"   -> loc.Event
      [] k = "handler" -> loc.Handler
      [] k = "target"  -> loc.Target
      [] k = "swap"    -> loc.Swap
      [] k = "values"  -> loc.Values
      [] k = "headers" -> loc.Headers

LocationOmitted(loc, k) ==
    CASE k = "values"  -> loc.Values = NilJSON \/ loc.Values = ""
      [] k = "headers" -> DOMAIN loc.Headers = {}
      [] OTHER         -> LocationMember(loc, k) = ""

\* json.Marshal(loc): an error when the raw Values are not a JSON text,
\* otherwise the object of the members that omitempty keeps
MarshalLocation(loc) ==
    [err |-> loc.Values \in InvalidJSON,
     val |-> JSONText([k \in {m \in LocationKeys : ~LocationOmitted(loc, m)}
                          |-> LocationMember(loc, k)])]

\* Location.HeaderValue: the short form is taken
HeaderValueIsPath(loc) ==
    /\ loc.Source = "" /\ loc.Event = "" /\ loc.Handler = "" /\ loc.Target = ""
    /\ loc.Swap = "" /\ loc.Values = NilJSON /\ DOMAIN loc.Headers = {}

\* Location.HeaderValue panics (json.Marshal returned an error)
HeaderValuePanics(loc) == ~HeaderValueIsPath(loc) /\ MarshalLocation(loc).err

HeaderValue(loc) ==
    IF HeaderValueIsPath(loc) THEN Plain(loc.Path) ELSE MarshalLocation(loc).val

\* the orders in which a range over the map ts may visit its keys
RangeOrders(ts) ==
    {o \in [1..Cardinality(DOMAIN ts) -> DOMAIN ts] :
        \A i, j \in DOMAIN o : i # j => o[i] # o[j]}

\* the strings.Builder loop of eventTriggersToHeaderValue over the keys in
\* the order `order`, started with the builder contents b
RECURSIVE WriteEvents(_, _)
WriteEvents(order, b) ==
    IF order = <<>> THEN b
    ELSE WriteEvents(Tail(order),
                     (IF b # "" THEN b \o "," ELSE b) \o Head(order))

\* json.Marshal of a map[Event]JSON: a nil RawMessage is written as null
MarshalTriggers(ts) ==
    JSONText([e \in DOMAIN ts |-> IF ts[e] = NilJSON THEN "null" ELSE ts[e]])

\* eventTriggersToHeaderValue that takes the JSON form only when every entry
\* has data
eventTriggersToHeaderValue_AllData(ts, order) ==
    LET hasData == \A e \in DOMAIN ts : ts[e] # NilJSON
    IN  IF hasData THEN MarshalTriggers(ts) ELSE Plain(WriteEvents(order, ""))

eventTriggersToHeaderValue(ts, order) ==
    LET hasData == \E e \in DOMAIN ts : ts[e] # NilJSON
    IN  IF hasData THEN MarshalTriggers(ts) ELSE Plain(WriteEvents(order, ""))

\* the three range orders one AddHeaders call uses
AddOrders(h) ==
    [Trigger : RangeOrders(h.Trigger),
     TriggerAfterSettle : RangeOrders(h.TriggerAfterSettle),
     TriggerAfterSwap : RangeOrders(h.TriggerAfterSwap)]

\* ResponseHeaders.AddHeaders panics: HeaderValue is its first call that can
AddHeadersPanics(h) == h.Location.Path # "" /\ HeaderValuePanics(h.Location)

\* AddHeaders without its if-statements: every header is always added
AddCondition_Unguarded(h, name) == TRUE

\* AddHeaders that writes HX-Location as soon as any sub-field is set
AddCondition_AnyLocationField(h, name) ==
    CASE name = "HX-Location"    -> h.Location # EmptyLocation
      [] name = "HX-Push-Url"    -> h.PushURL # ""
      [] name = "HX-Redirect"    -> h.Redirect # ""
      [] name = "HX-Refresh"     -> h.Refresh
      [] name = "HX-Replace-Url" -> h.ReplaceURL # ""
      [] name = "HX-Reswap"      -> h.Reswap # ""
      [] name = "HX-Retarget"    -> h.Retarget # ""
      [] name = "HX-Reselect"    -> h.Reselect # ""
      [] name = "HX-Trigger"     -> Cardinality(DOMAIN h.Trigger) > 0
      [] name = "HX-Trigger-After-Settle" ->
             Cardinality(DOMAIN h.TriggerAfterSettle) > 0
      [] name = "HX-Trigger-After-Swap" ->
             Cardinality(DOMAIN h.TriggerAfterSwap) > 0

\* the condition of the if-statement of AddHeaders that writes `name`
AddCondition(h, name) ==
    CASE name = "HX-Location"    -> h.Location.Path # ""
      [] name = "HX-Push-Url"    -> h.PushURL # ""
      [] name = "HX-Redirect"    -> h.Redirect # ""
      [] name = "HX-Refresh"     -> h.Refresh
      [] name = "HX-Replace-Url" -> h.ReplaceURL # ""
      [] name = "HX-Reswap"      -> h.Reswap # ""
      [] name = "HX-Retarget"    -> h.Retarget # ""
      [] name = "HX-Reselect"    -> h.Reselect # ""
      [] name = "HX-Trigger"     -> Cardinality(DOMAIN h.Trigger) > 0
      [] name = "HX-Trigger-After-Settle" ->
             Cardinality(DOMAIN h.TriggerAfterSettle) > 0
      [] name = "HX-Trigger-After-Swap" ->
             Cardinality(DOMAIN h.TriggerAfterSwap) > 0

\* the value that if-statement adds
AddValue(h, name, ord) ==
    CASE name = "HX-Location"    -> HeaderValue(h.Location)
      [] name = "HX-Push-Url"    -> Plain(h.PushURL)
      [] name = "HX-Redirect"    -> Plain(h.Redirect)
      [] name = "HX-Refresh"     -> Plain("true")
      [] name = "HX-Replace-Url" -> Plain(h.ReplaceURL)
      [] name = "HX-Reswap"      -> Plain(h.Reswap)
      [] name = "HX-Retarget"    -> Plain(h.Retarget)
      [] name = "HX-Reselect"    -> Plain(h.Reselect)
      [] name = "HX-Trigger"     ->
             eventTriggersToHeaderValue(h.Trigger, ord.Trigger)
      [] name = "HX-Trigger-After-Settle" ->
             eventTriggersToHeaderValue(h.TriggerAfterSettle,
                                        ord.TriggerAfterSettle)
      [] name = "HX-Trigger-After-Swap" ->
             eventTriggersToHeaderValue(h.TriggerAfterSwap,
                                        ord.TriggerAfterSwap)

\* the if-statements of AddHeaders from the i-th on, in source order
RECURSIVE AddFrom(_, _, _, _)
AddFrom(h, header, ord, i) ==
    IF i > Len(HXNames) THEN header
    ELSE AddFrom(h,
                 IF AddCondition(h, HXNames[i])
                 THEN HeaderAdd(header, HXNames[i], AddValue(h, HXNames[i], ord))
                 ELSE header,
                 ord, i + 1)

\* ResponseHeaders.AddHeaders(header) when it does not panic
AddHeaders(h, header, ord) == AddFrom(h, header, ord, 1)

\* every header collection one AddHeaders call on h can leave behind
AddHeadersOutcomes(h, header) == {AddHeaders(h, header, o) : o \in AddOrders(h)}


(***************************************************************************)
(* The state of one request.                                               *)
(***************************************************************************)
VARIABLES
    pc,            \* where the middleware's handler function is
    h,             \* the ResponseHeaders record bound to the request
    header,        \* w.Header(), the outgoing header collection
    wroteHeaders,  \* responseWriterWrapper.wroteHeaders
    wire,          \* the wrapped ResponseWriter: what it committed, if anything
    nAdds,         \* history: AddHeaders calls that returned
    atFlush,       \* history: the record, the last setter arguments and the
                   \* header collection before and after the first flush
    lastSet,       \* history: the argument of the last call of each scalar setter
    prevSet,       \* history: the argument of the call before that one
    lastOp,        \* history: the last operation, its argument, whether it failed
    ncalls,        \* setter calls so far
    nwrites,       \* Write / WriteHeader calls so far
    heap,          \* concurrent requests: the records the middleware allocated
    reqs,          \* concurrent requests: the state of each request
    request,       \* Request(r): the header of the inbound request
    snapshot,      \* Request(r): what the call returned
    nested         \* a request that passes through NewMiddleware twice

\* the state of the requests that are processed concurrently
concVars == <<heap, reqs>>

\* the state read and written by Request(r)
inVars == <<request, snapshot>>

vars == <<pc, h, header, wroteHeaders, wire, nAdds, atFlush, lastSet, prevSet,
          lastOp, ncalls, nwrites, heap, reqs, request, snapshot, nested>>

\* no concurrent requests are being processed
NoConcurrent == heap = <<>> /\ reqs = <<>>

\* the request does not pass through NewMiddleware twice
NotNested == nested = <<>>

\* Request(r) was not called
NotAsked == [called |-> FALSE]
NoInbound == request = <<>> /\ snapshot = NotAsked

NoOp == [op |-> "none", arg |-> "", err |-> FALSE]

\* no scalar setter was called yet: what a call with the zero value passes
NoneSet ==
    [Location |-> EmptyLocation, PushURL |-> "", Redirect |-> "",
     Refresh |-> FALSE, ReplaceURL |-> "", Reswap |-> "", Retarget |-> "",
     Reselect |-> ""]

NoFlush == [h |-> NewResponseHeaders, last |-> NoneSet, prev |-> NoneSet,
            before |-> EmptyHeader, after |-> EmptyHeader]

Uncommitted == [committed |-> FALSE, header |-> EmptyHeader]

\* the state when the server calls the middleware's handler function
Init ==
    /\ pc = "unattached"
    /\ h = NewResponseHeaders
    /\ header = EmptyHeader
    /\ wroteHeaders = FALSE
    /\ wire = Uncommitted
    /\ nAdds = 0
    /\ atFlush = NoFlush
    /\ lastSet = NoneSet
    /\ prevSet = NoneSet
    /\ lastOp = NoOp
    /\ ncalls = 0
    /\ nwrites = 0
    /\ NoConcurrent
    /\ NotNested
    /\ NoInbound

(***************************************************************************)
(* The writer wrapper.  A wrapper state w gathers what its methods read    *)
(* and write; w.panic says that the call panicked.                         *)
(***************************************************************************)
\* a wrapper that holds a copy of the record made when it was built
Wrapper_Copy ==
    [h |-> NewResponseHeaders, header |-> header,
     wroteHeaders |-> wroteHeaders, wire |-> wire, nAdds |-> nAdds,
     panic |-> FALSE]

Wrapper ==
    [h |-> h, header |-> header, wroteHeaders |-> wroteHeaders, wire |-> wire,
     nAdds |-> nAdds, panic |-> FALSE]

\* writeHXHeader without its early return: every call serializes again
writeHXHeader_NoGuard(w, ord) ==
    IF AddHeadersPanics(w.h) THEN [w EXCEPT !.panic = TRUE]
    ELSE [w EXCEPT !.header = AddHeaders(w.h, w.header, ord),
                   !.nAdds = @ + 1,
                   !.wroteHeaders = TRUE]

\* writeHXHeader that forgets to set wroteHeaders
writeHXHeader_NeverMarks(w, ord) ==
    IF w.wroteHeaders THEN w
    ELSE IF AddHeadersPanics(w.h) THEN [w EXCEPT !.panic = TRUE]
    ELSE [w EXCEPT !.header = AddHeaders(w.h, w.header, ord),
                   !.nAdds = @ + 1]

\* responseWriterWrapper.writeHXHeader, AddHeaders ranging in the orders ord
writeHXHeader(w, ord) ==
    IF w.wroteHeaders THEN w
    ELSE IF AddHeadersPanics(w.h) THEN [w EXCEPT !.panic = TRUE]
    ELSE [w EXCEPT !.header = AddHeaders(w.h, w.header, ord),
                   !.nAdds = @ + 1,
                   !.wroteHeaders = TRUE]

\* the wrapped http.ResponseWriter's Write / WriteHeader: its first call
\* commits the header collection as it is then
Delegate(w) ==
    IF w.wire.committed THEN w
    ELSE [w EXCEPT !.wire = [committed |-> TRUE, header |-> w.header]]

\* Write that calls the wrapped writer before it flushes
Write_DelegateFirst(w, ord) ==
    LET flushed == writeHXHeader(Delegate(w), ord)
    IN  flushed

\* responseWriterWrapper.Write
Write(w, ord) ==
    LET flushed == writeHXHeader(w, ord)
    IN  IF flushed.panic THEN flushed ELSE Delegate(flushed)

\* responseWriterWrapper.WriteHeader
WriteHeader(w, ord) ==
    LET flushed == writeHXHeader(w, ord)
    IN  IF flushed.panic THEN flushed ELSE Delegate(flushed)

\* the wrapper state w becomes the state of the request; the history keeps
\* the request's record and header collection of the step in which
\* AddHeaders first returned
Becomes(w) ==
    /\ header' = w.header
    /\ wroteHeaders' = w.wroteHeaders
    /\ wire' = w.wire
    /\ nAdds' = w.nAdds
    /\ atFlush' = IF nAdds = 0 /\ w.nAdds > 0
                  THEN [h |-> h, last |-> lastSet, prev |-> prevSet,
                        before |-> header, after |-> w.header]
                  ELSE atFlush

(***************************************************************************)
(* The middleware and the handler chain's calls on the writer.             *)
(***************************************************************************)
\* NewMiddleware's handler function up to next.ServeHTTP: a fresh record is
\* bound to the request and the writer is wrapped
Attach ==
    /\ pc = "unattached"
    /\ pc' = "handler"
    /\ h' = NewResponseHeaders
    /\ wroteHeaders' = FALSE
    /\ lastOp' = [op |-> "Attach", arg |-> "", err |-> FALSE]
    /\ UNCHANGED <<header, wire, nAdds, atFlush, lastSet, prevSet, ncalls, nwrites>>
    /\ UNCHANGED <<concVars, inVars, nested>>

\* the handler chain calls ww.Write; a panic of the flush either unwinds the
\* chain or is recovered inside it
WriteCall ==
    /\ pc = "handler"
    /\ nwrites < MaxWrites
    /\ \E ord \in AddOrders(h), recovered \in BOOLEAN :
         LET w == Write(Wrapper, ord)
         IN  /\ Becomes(w)
             /\ pc' = IF w.panic /\ ~recovered THEN "aborted" ELSE "handler"
             /\ lastOp' = [op |-> "Write", arg |-> "", err |-> w.panic]
    /\ nwrites' = nwrites + 1
    /\ UNCHANGED <<h, lastSet, prevSet, ncalls, concVars, inVars, nested>>

\* the handler chain calls ww.WriteHeader
WriteHeaderCall ==
    /\ pc = "handler"
    /\ nwrites < MaxWrites
    /\ \E ord \in AddOrders(h), recovered \in BOOLEAN :
         LET w == WriteHeader(Wrapper, ord)
         IN  /\ Becomes(w)
             /\ pc' = IF w.panic /\ ~recovered THEN "aborted" ELSE "handler"
             /\ lastOp' = [op |-> "WriteHeader", arg |-> "", err |-> w.panic]
    /\ nwrites' = nwrites + 1
    /\ UNCHANGED <<h, lastSet, prevSet, ncalls, concVars, inVars, nested>>

\* next.ServeHTTP returns and the middleware calls ww.writeHXHeader
EndOfChain ==
    /\ pc = "handler"
    /\ \E ord \in AddOrders(h) :
         LET w == writeHXHeader(Wrapper, ord)
         IN  /\ Becomes(w)
             /\ pc' = IF w.panic THEN "flushpanic" ELSE "done"
             /\ lastOp' = [op |-> "EndOfChain", arg |-> "", err |-> w.panic]
    /\ UNCHANGED <<h, lastSet, prevSet, ncalls, nwrites, concVars, inVars, nested>>


(***************************************************************************)
(* The setters.  Response(r) is the record h bound by the middleware.      *)
(***************************************************************************)
\* the exported setters
SetterOps == {"Location", "LocationPath", "FullLocation", "PushURL",
              "PreventPushURL", "Redirect", "Refresh", "ReplaceURL",
              "PreventReplaceURL", "Reswap", "Retarget", "Reselect", "Trigger",
              "TriggerAfterSettle", "TriggerAfterSwap"}

\* Response that hands out a default record when none is bound
Response_Default == [panic |-> FALSE, h |-> h]

\* Response(r): the type assertion on the context value panics when no
\* record is bound to the request, i.e. before the middleware bound one
Response ==
    IF pc = "unattached" THEN [panic |-> TRUE, h |-> h]
    ELSE [panic |-> FALSE, h |-> h]

\* a handler calls a setter on a request to which no record is bound: the
\* setter's first step is Response(r)
SetterWithoutRecord ==
    /\ pc = "unattached"
    /\ \E op \in SetterOps :
         lastOp' = [op |-> "Response", arg |-> op, err |-> FALSE]
    /\ pc' = IF Response.panic THEN "responsepanic" ELSE "returned"
    /\ UNCHANGED <<h, header, wroteHeaders, wire, nAdds, atFlush, lastSet,
                   prevSet, ncalls, nwrites, concVars, inVars, nested>>

\* a setter that serializes the record into the header collection at once
SetterReturns_Eager(op, arg, err, nh, field, passed) ==
    /\ pc = "handler"
    /\ ncalls < MaxCalls
    /\ h' = nh
    /\ lastSet' = IF field = "" THEN lastSet
                  ELSE [lastSet EXCEPT ![field] = passed]
    /\ prevSet' = IF field = "" THEN prevSet
                  ELSE [prevSet EXCEPT ![field] = lastSet[field]]
    /\ lastOp' = [op |-> op, arg |-> arg, err |-> err]
    /\ ncalls' = ncalls + 1
    /\ header' = IF nh.Reselect # ""
                 THEN HeaderAdd(header, "HX-Reselect", Plain(nh.Reselect))
                 ELSE header
    /\ UNCHANGED <<pc, wroteHeaders, wire, nAdds, atFlush, nwrites>>
    /\ UNCHANGED <<concVars, inVars, nested>>

\* a setter call returns: the record becomes nh; the history records the
\* call and, for a call that stored a scalar field, what it passed for it
SetterReturns(op, arg, err, nh, field, passed) ==
    /\ pc = "handler"
    /\ ncalls < MaxCalls
    /\ h' = nh
    /\ lastSet' = IF field = "" THEN lastSet
                  ELSE [lastSet EXCEPT ![field] = passed]
    /\ prevSet' = IF field = "" THEN prevSet
                  ELSE [prevSet EXCEPT ![field] = lastSet[field]]
    /\ lastOp' = [op |-> op, arg |-> arg, err |-> err]
    /\ ncalls' = ncalls + 1
    /\ UNCHANGED <<pc, header, wroteHeaders, wire, nAdds, atFlush, nwrites>>
    /\ UNCHANGED <<concVars, inVars, nested>>

\* LocationData of global.go: Values is a value of type any
EmptyLocationData == [EmptyLocation EXCEPT !.Values = NilData]

\* LocationData.toHeader
toHeader(d) ==
    LET hdr == [Path |-> d.Path, Source |-> d.Source, Event |-> d.Event,
                Handler |-> d.Handler, Target |-> d.Target, Swap |-> d.Swap,
                Values |-> NilJSON, Headers |-> d.Headers]
    IN  IF hdr.Values # NilJSON
        THEN LET values == jsonMarshal(d.Values)
             IN  IF values.err THEN [h |-> hdr, err |-> TRUE]
                 ELSE [h |-> [hdr EXCEPT !.Values = values.bytes], err |-> FALSE]
        ELSE [h |-> hdr, err |-> FALSE]

Location(loc) ==
    LET t == toHeader(loc)
    IN  IF t.err
        THEN SetterReturns("Location", loc, TRUE, h, "", "")
        ELSE SetterReturns("Location", loc, FALSE,
                           [h EXCEPT !.Location = t.h], "Location", loc)

\* LocationPath that changes the path and keeps the other sub-fields
LocationPath_KeepRest(path) ==
    SetterReturns("LocationPath", path, FALSE,
                  [h EXCEPT !.Location.Path = path],
                  "Location", [EmptyLocation EXCEPT !.Path = path])

LocationPath(path) ==
    SetterReturns("LocationPath", path, FALSE,
                  [h EXCEPT !.Location = [EmptyLocation EXCEPT !.Path = path]],
                  "Location", [EmptyLocation EXCEPT !.Path = path])

FullLocation(loc) ==
    SetterReturns("FullLocation", loc, FALSE,
                  [h EXCEPT !.Location = loc], "Location", loc)

PushURL(u) ==
    SetterReturns("PushURL", u, FALSE, [h EXCEPT !.PushURL = u], "PushURL", u)

PreventPushURL ==
    SetterReturns("PreventPushURL", "false", FALSE,
                  [h EXCEPT !.PushURL = "false"], "PushURL", "false")

Redirect(u) ==
    SetterReturns("Redirect", u, FALSE, [h EXCEPT !.Redirect = u],
                  "Redirect", u)

Refresh(refresh) ==
    SetterReturns("Refresh", refresh, FALSE, [h EXCEPT !.Refresh = refresh],
                  "Refresh", refresh)

ReplaceURL(u) ==
    SetterReturns("ReplaceURL", u, FALSE, [h EXCEPT !.ReplaceURL = u],
                  "ReplaceURL", u)

PreventReplaceURL ==
    SetterReturns("PreventReplaceURL", "false", FALSE,
                  [h EXCEPT !.ReplaceURL = "false"], "ReplaceURL", "false")

Reswap(strategy) ==
    SetterReturns("Reswap", strategy, FALSE, [h EXCEPT !.Reswap = strategy],
                  "Reswap", strategy)

\* Retarget that keeps a selector set before
Retarget_KeepFirst(sel) ==
    SetterReturns("Retarget", sel, FALSE,
                  IF h.Retarget = "" THEN [h EXCEPT !.Retarget = sel] ELSE h,
                  "Retarget", sel)

Retarget(sel) ==
    SetterReturns("Retarget", sel, FALSE, [h EXCEPT !.Retarget = sel],
                  "Retarget", sel)

Reselect(sel) ==
    SetterReturns("Reselect", sel, FALSE, [h EXCEPT !.Reselect = sel],
                  "Reselect", sel)

\* the first lines of Trigger, TriggerAfterSettle and TriggerAfterSwap:
\* nil data stays a nil JSON, any other data is marshalled
TriggerData(data) ==
    IF data # NilData THEN jsonMarshal(data)
    ELSE [err |-> FALSE, bytes |-> NilJSON]

\* a map assignment that keeps the entry a name already has
MapSet_KeepOld(ts, name, jsonData) == ts @@ (name :> jsonData)

\* a map assignment that deletes the entry when the payload is nil
MapSet_NilDeletes(ts, name, jsonData) ==
    IF jsonData = NilJSON THEN [e \in DOMAIN ts \ {name} |-> ts[e]]
    ELSE (name :> jsonData) @@ ts

\* the map assignment ts[name] = jsonData
MapSet(ts, name, jsonData) == (name :> jsonData) @@ ts

\* history of a trigger setter call: its arguments and what the mapping held
\* under the name when the call was made
AbsentJSON == "<absent>"
TriggerCall(ts, name, data) ==
    [name |-> name, data |-> data,
     old |-> IF name \in DOMAIN ts THEN ts[name] ELSE AbsentJSON]

Trigger(name, data) ==
    LET j == TriggerData(data)
        arg == TriggerCall(h.Trigger, name, data)
    IN  IF j.err THEN SetterReturns("Trigger", arg, TRUE, h, "", "")
        ELSE SetterReturns("Trigger", arg, FALSE,
                 [h EXCEPT !.Trigger = MapSet(@, name, j.bytes)], "", "")

TriggerAfterSettle(name, data) ==
    LET j == TriggerData(data)
        arg == TriggerCall(h.TriggerAfterSettle, name, data)
    IN  IF j.err THEN SetterReturns("TriggerAfterSettle", arg, TRUE, h, "", "")
        ELSE SetterReturns("TriggerAfterSettle", arg, FALSE,
                 [h EXCEPT !.TriggerAfterSettle = MapSet(@, name, j.bytes)],
                 "", "")

TriggerAfterSwap(name, data) ==
    LET j == TriggerData(data)
        arg == TriggerCall(h.TriggerAfterSwap, name, data)
    IN  IF j.err THEN SetterReturns("TriggerAfterSwap", arg, TRUE, h, "", "")
        ELSE SetterReturns("TriggerAfterSwap", arg, FALSE,
                 [h EXCEPT !.TriggerAfterSwap = MapSet(@, name, j.bytes)],
                 "", "")

(***************************************************************************)
(* The arguments the handler chain passes.                                 *)
(***************************************************************************)
\* the location descriptors the handler chain passes: a path alone, a path
\* with a target, a target without a path, and a path with each of the
\* values vs of the Values sub-field
Descriptors(empty, vs) ==
    {[empty EXCEPT !.Path = "/b"],
     [empty EXCEPT !.Path = "/a", !.Target = "#main"],
     [empty EXCEPT !.Target = "#main"]}
    \cup {[empty EXCEPT !.Path = "/a", !.Values = v] : v \in vs}

LocationDatas == Descriptors(EmptyLocationData, {"int", "chan"})

Locations == Descriptors(EmptyLocation, {"1", "bad"})

\* the (event name, data) pairs the handler chain passes to a trigger
\* setter: the empty event name comes without data only
TriggerArgs == (Events \X Datas) \ {<<"", "int">>, <<"", "chan">>}

Next ==
    \/ Attach
    \/ SetterWithoutRecord
    \/ WriteCall
    \/ WriteHeaderCall
    \/ EndOfChain
    \/ \E loc \in LocationDatas : Location(loc)
    \/ \E path \in URLs : LocationPath(path)
    \/ \E loc \in Locations : FullLocation(loc)
    \/ \E u \in SameOriginURLs : PushURL(u)
    \/ PreventPushURL
    \/ \E u \in URLs : Redirect(u)
    \/ \E refresh \in BOOLEAN : Refresh(refresh)
    \/ \E u \in SameOriginURLs : ReplaceURL(u)
    \/ PreventReplaceURL
    \/ \E strategy \in SwapStrategies : Reswap(strategy)
    \/ \E sel \in Selectors : Retarget(sel)
    \/ \E sel \in Selectors : Reselect(sel)
    \/ \E a \in TriggerArgs : Trigger(a[1], a[2])
    \/ \E a \in TriggerArgs : TriggerAfterSettle(a[1], a[2])
    \/ \E a \in TriggerArgs : TriggerAfterSwap(a[1], a[2])

Spec == Init /\ [][Next]_vars


(***************************************************************************)
(* The serializer on its own: AddHeaders is exported, and is called here   *)
(* on records drawn from the values the setters can store.                 *)
(***************************************************************************)
SerEvents == {"", "a", "b"}

\* the maps over SerEvents whose payloads are nil or the JSON text 1
SerMaps ==
    UNION {[D -> {NilJSON, "1"}] : D \in SUBSET SerEvents}

SmallMaps == {<<>>, [a |-> NilJSON]}

SerLocations ==
    {EmptyLocation,
     [EmptyLocation EXCEPT !.Path = "/a"],
     [EmptyLocation EXCEPT !.Target = "#main"],
     [EmptyLocation EXCEPT !.Target = "#main", !.Values = "bad",
                           !.Headers = [k |-> "v"]],
     [EmptyLocation EXCEPT !.Path = "/a", !.Source = "#nav"],
     [EmptyLocation EXCEPT !.Path = "/a", !.Event = "a"],
     [EmptyLocation EXCEPT !.Path = "/a", !.Handler = "f"],
     [EmptyLocation EXCEPT !.Path = "/a", !.Target = "#main"],
     [EmptyLocation EXCEPT !.Path = "/a", !.Swap = "innerHTML"],
     [EmptyLocation EXCEPT !.Path = "/a", !.Values = "1"],
     [EmptyLocation EXCEPT !.Path = "/a", !.Values = ""],
     [EmptyLocation EXCEPT !.Path = "/a", !.Values = "bad"],
     [EmptyLocation EXCEPT !.Path = "/a", !.Headers = [k |-> "v"]],
     [Path |-> "/a", Source |-> "#nav", Event |-> "a", Handler |-> "f",
      Target |-> "#main", Swap |-> "innerHTML", Values |-> "1",
      Headers |-> [k |-> "v"]]}

ScalarNames == {"PushURL", "Redirect", "Refresh", "ReplaceURL", "Reswap",
                "Retarget", "Reselect"}

\* the record with the scalar fields of S set and the others at their zero
WithScalars(S) ==
    [Location |-> EmptyLocation,
     PushURL |-> IF "PushURL" \in S THEN "false" ELSE "",
     Redirect |-> IF "Redirect" \in S THEN "/a" ELSE "",
     Refresh |-> "Refresh" \in S,
     ReplaceURL |-> IF "ReplaceURL" \in S THEN "/b" ELSE "",
     Reswap |-> IF "Reswap" \in S THEN "outerHTML" ELSE "",
     Retarget |-> IF "Retarget" \in S THEN "#main" ELSE "",
     Reselect |-> IF "Reselect" \in S THEN "#nav" ELSE "",
     Trigger |-> <<>>, TriggerAfterSettle |-> <<>>, TriggerAfterSwap |-> <<>>]

\* no scalar, every scalar, or exactly one scalar set; any location; any map
\* in one of the three mappings and a small map in the two others
SerRecords ==
    {[WithScalars(S) EXCEPT !.Location = loc, !.Trigger = t[1],
                            !.TriggerAfterSettle = t[2],
                            !.TriggerAfterSwap = t[3]] :
        S \in {{}, ScalarNames} \cup {{n} : n \in ScalarNames},
        loc \in SerLocations,
        t \in {u \in SerMaps \X SerMaps \X SerMaps :
                 Cardinality({i \in 1..3 : u[i] \notin SmallMaps}) <= 1}}

SerInit ==
    /\ pc = "direct"
    /\ h \in SerRecords
    /\ header = EmptyHeader
    /\ wroteHeaders = FALSE
    /\ wire = Uncommitted
    /\ nAdds = 0
    /\ atFlush = NoFlush
    /\ lastSet = NoneSet
    /\ prevSet = NoneSet
    /\ lastOp = NoOp
    /\ ncalls = 0
    /\ nwrites = 0
    /\ NoConcurrent
    /\ NotNested
    /\ NoInbound

\* h.AddHeaders(header), called directly
AddHeadersCall ==
    /\ pc = "direct"
    /\ nAdds < MaxAdds
    /\ IF AddHeadersPanics(h)
       THEN /\ pc' = "panicked"
            /\ UNCHANGED <<header, nAdds>>
       ELSE /\ \E ord \in AddOrders(h) : header' = AddHeaders(h, header, ord)
            /\ nAdds' = nAdds + 1
            /\ pc' = pc
    /\ lastOp' = [op |-> "AddHeaders", arg |-> "", err |-> AddHeadersPanics(h)]
    /\ UNCHANGED <<h, wroteHeaders, wire, atFlush, lastSet, prevSet, ncalls,
                   nwrites, concVars, inVars, nested>>

SerNext == AddHeadersCall

SerSpec == SerInit /\ [][SerNext]_vars


(***************************************************************************)
(* Two requests processed concurrently.  Each invocation of the            *)
(* middleware's handler function allocates its own record (the local h,    *)
(* whose address is bound to the request and given to the wrapper); the    *)
(* steps of the two requests interleave in every order.                    *)
(***************************************************************************)
\* setter calls made by the handler chain of each concurrent request
MaxConcCalls == 2

Reqs == {"r1", "r2"}

\* the addresses a ResponseHeaders variable can get
Addrs == {"h1", "h2"}

NilPointer == "nil"

\* an allocation that hands out one process-wide record
Alloc_Singleton(hp) == "h1"

\* the address of a newly allocated variable: one no live variable has
Alloc(hp) == CHOOSE a \in Addrs : a \notin DOMAIN hp

\* a request before the middleware's handler function ran for it
NewRequest ==
    [pc |-> "unattached", ctx |-> NilPointer, wh |-> NilPointer,
     wroteHeaders |-> FALSE, header |-> EmptyHeader, calls |-> <<>>,
     flushedAt |-> -1]

\* the setter calls the handler chains make
ConcCalls ==
    {[op |-> "Retarget", arg |-> "#main"], [op |-> "Retarget", arg |-> "#nav"],
     [op |-> "Trigger", arg |-> "a"]}

\* what a setter call assigns through the pointer Response(r) returned
ApplyCall(rec, call) ==
    CASE call.op = "Retarget" -> [rec EXCEPT !.Retarget = call.arg]
      [] call.op = "Trigger"  ->
             [rec EXCEPT !.Trigger = MapSet(@, call.arg, TriggerData(NilData).bytes)]

ConcInit ==
    /\ pc = "concurrent"
    /\ h = NewResponseHeaders
    /\ header = EmptyHeader
    /\ wroteHeaders = FALSE
    /\ wire = Uncommitted
    /\ nAdds = 0
    /\ atFlush = NoFlush
    /\ lastSet = NoneSet
    /\ prevSet = NoneSet
    /\ lastOp = NoOp
    /\ ncalls = 0
    /\ nwrites = 0
    /\ heap = <<>>
    /\ reqs = [r \in Reqs |-> NewRequest]
    /\ NoInbound
    /\ NotNested

\* the single-request variables are not used
ConcFrame ==
    UNCHANGED <<pc, h, header, wroteHeaders, wire, nAdds, atFlush, lastSet,
                prevSet, lastOp, ncalls, nwrites, inVars, nested>>

\* NewMiddleware's handler function for request r, up to next.ServeHTTP
ConcAttach(r) ==
    /\ reqs[r].pc = "unattached"
    /\ LET a == Alloc(heap)
       IN  /\ heap' = (a :> NewResponseHeaders) @@ heap
           /\ reqs' = [reqs EXCEPT ![r].pc = "handler", ![r].ctx = a,
                                   ![r].wh = a]
    /\ ConcFrame

\* the handler chain of request r calls a setter: the assignment goes
\* through the pointer bound to r
ConcSetter(r, call) ==
    /\ reqs[r].pc = "handler"
    /\ Len(reqs[r].calls) < MaxConcCalls
    /\ heap' = [heap EXCEPT ![reqs[r].ctx] = ApplyCall(@, call)]
    /\ reqs' = [reqs EXCEPT ![r].calls = Append(@, call)]
    /\ ConcFrame

\* the wrapper of request r, as its methods see it
ConcWrapper(r) ==
    [h |-> heap[reqs[r].wh], header |-> reqs[r].header,
     wroteHeaders |-> reqs[r].wroteHeaders, wire |-> Uncommitted,
     nAdds |-> 0, panic |-> FALSE]

\* the wrapper state w becomes the state of request r; the history keeps
\* how many setter calls r had made when its flush happened
ConcBecomes(r, w, nextpc) ==
    reqs' = [reqs EXCEPT ![r].header = w.header,
                         ![r].wroteHeaders = w.wroteHeaders,
                         ![r].flushedAt = IF w.nAdds > 0 THEN Len(reqs[r].calls)
                                          ELSE @,
                         ![r].pc = nextpc]

\* the handler chain of request r calls Write on its wrapper
ConcWrite(r) ==
    /\ reqs[r].pc = "handler"
    /\ \E ord \in AddOrders(heap[reqs[r].wh]) :
           ConcBecomes(r, Write(ConcWrapper(r), ord), "handler")
    /\ UNCHANGED heap
    /\ ConcFrame

\* the handler chain of request r returns; the middleware flushes
ConcEndOfChain(r) ==
    /\ reqs[r].pc = "handler"
    /\ \E ord \in AddOrders(heap[reqs[r].wh]) :
           ConcBecomes(r, writeHXHeader(ConcWrapper(r), ord), "done")
    /\ UNCHANGED heap
    /\ ConcFrame

ConcNext ==
    \E r \in Reqs :
        \/ ConcAttach(r)
        \/ \E call \in ConcCalls : ConcSetter(r, call)
        \/ ConcWrite(r)
        \/ ConcEndOfChain(r)

ConcSpec == ConcInit /\ [][ConcNext]_vars


(***************************************************************************)
(* Request(r): the snapshot of the htmx request headers.                   *)
(***************************************************************************)
\* the values an inbound request may carry under the marker header, under a
\* boolean header and under a text header: none, one, or two values
MarkerValues == {<<>>, <<"true">>, <<"false">>, <<"True">>, <<"false", "true">>}
FlagValues == {<<>>, <<"true">>, <<"1">>}
TextValues == {<<>>, <<"x">>}

\* the headers of the inbound requests
InboundHeaders ==
    {("HX-Request" :> m) @@ ("HX-Boosted" :> b)
       @@ ("HX-History-Restore-Request" :> hr) @@ ("HX-Current-Url" :> cu)
       @@ ("HX-Prompt" :> p) @@ ("HX-Target" :> t)
       @@ ("HX-Trigger-Name" :> tn) @@ ("HX-Trigger" :> tr) :
        m \in MarkerValues, b \in FlagValues, hr \in FlagValues,
        cu \in TextValues, p \in TextValues, t \in TextValues,
        tn \in TextValues, tr \in TextValues}

\* http.Header.Get: the first value under the name, "" when there is none
Get(hdr, name) == IF hdr[name] = <<>> THEN "" ELSE hdr[name][1]

\* the nil *RequestHeaders
NilSnapshot == [pointer |-> "nil"]

\* Request that takes the presence of the marker header for the marker
Request_PresenceOnly(hdr) ==
    IF Get(hdr, "HX-Request") = "" THEN NilSnapshot
    ELSE [Boosted |-> Get(hdr, "HX-Boosted") = "true",
          CurrentURL |-> Get(hdr, "HX-Current-Url"),
          HistoryRestoreRequest |->
              Get(hdr, "HX-History-Restore-Request") = "true",
          Prompt |-> Get(hdr, "HX-Prompt"),
          Target |-> Get(hdr, "HX-Target"),
          TriggerName |-> Get(hdr, "HX-Trigger-Name"),
          Trigger |-> Get(hdr, "HX-Trigger")]

\* Request(r), r.Header being hdr
Request(hdr) ==
    IF Get(hdr, "HX-Request") # "true" THEN NilSnapshot
    ELSE [Boosted |-> Get(hdr, "HX-Boosted") = "true",
          CurrentURL |-> Get(hdr, "HX-Current-Url"),
          HistoryRestoreRequest |->
              Get(hdr, "HX-History-Restore-Request") = "true",
          Prompt |-> Get(hdr, "HX-Prompt"),
          Target |-> Get(hdr, "HX-Target"),
          TriggerName |-> Get(hdr, "HX-Trigger-Name"),
          Trigger |-> Get(hdr, "HX-Trigger")]

\* a request with any of the inbound headers reaches a handler, behind the
\* middleware (pc = "handler") or without it (pc = "unattached")
ReqInit ==
    /\ pc \in {"unattached", "handler"}
    /\ h = NewResponseHeaders
    /\ header = EmptyHeader
    /\ wroteHeaders = FALSE
    /\ wire = Uncommitted
    /\ nAdds = 0
    /\ atFlush = NoFlush
    /\ lastSet = NoneSet
    /\ prevSet = NoneSet
    /\ lastOp = NoOp
    /\ ncalls = 0
    /\ nwrites = 0
    /\ NoConcurrent
    /\ NotNested
    /\ request \in InboundHeaders
    /\ snapshot = NotAsked

\* the handler calls Request(r)
RequestCall ==
    /\ snapshot = NotAsked
    /\ snapshot' = Request(request)
    /\ lastOp' = [op |-> "Request", arg |-> "", err |-> FALSE]
    /\ UNCHANGED <<pc, h, header, wroteHeaders, wire, nAdds, atFlush, lastSet,
                   prevSet, ncalls, nwrites, concVars, request, nested>>

ReqNext == RequestCall

ReqSpec == ReqInit /\ [][ReqNext]_vars


(***************************************************************************)
(* A handler chain that also writes to the outgoing header collection      *)
(* itself, through the Header method the wrapper promotes from the         *)
(* embedded http.ResponseWriter.                                           *)
(***************************************************************************)
\* the (name, value) pairs the handler chain sets itself: an HX name that
\* the library writes too, and another name
HandlerHeaders == {<<"HX-Retarget", "#side">>, <<"Content-Type", "text/html">>}

\* the handler chain calls ww.Header().Add(name, value) for a name that has
\* no value yet
HeaderSetByHandler ==
    /\ pc = "handler"
    /\ \E nv \in HandlerHeaders :
         /\ IF nv[1] \in DOMAIN header THEN header[nv[1]] = <<>> ELSE TRUE
         /\ header' = (nv[1] :> <<Plain(nv[2])>>) @@ header
         /\ lastOp' = [op |-> "Header", arg |-> nv, err |-> FALSE]
    /\ UNCHANGED <<pc, h, wroteHeaders, wire, nAdds, atFlush, lastSet, prevSet,
                   ncalls, nwrites, concVars, inVars, nested>>

PresetNext ==
    \/ Attach
    \/ HeaderSetByHandler
    \/ \E sel \in Selectors : Retarget(sel)
    \/ \E a \in TriggerArgs : Trigger(a[1], a[2])
    \/ WriteCall
    \/ WriteHeaderCall
    \/ EndOfChain

PresetSpec == Init /\ [][PresetNext]_vars


(***************************************************************************)
(* One request whose handler chain applies NewMiddleware twice: the outer  *)
(* middleware, a layer between the two, the inner middleware, and the      *)
(* handler.  Both middlewares are given the same request, and each        *)
(* overwrites that request in place with its copy carrying the new context.*)
(***************************************************************************)
\* setter calls made on the request by the layer and the handler together
MaxNestCalls == 2

\* where code of the chain runs: the layer before it calls the inner
\* middleware, the handler, the layer after the inner middleware returned
NestPositions == {"pre", "handler", "post"}

NestInit ==
    /\ pc = "nested"
    /\ h = NewResponseHeaders
    /\ header = EmptyHeader
    /\ wroteHeaders = FALSE
    /\ wire = Uncommitted
    /\ nAdds = 0
    /\ atFlush = NoFlush
    /\ lastSet = NoneSet
    /\ prevSet = NoneSet
    /\ lastOp = NoOp
    /\ ncalls = 0
    /\ nwrites = 0
    /\ NoConcurrent
    /\ NoInbound
    /\ nested = [pc |-> "start", ctx |-> NilPointer, recs |-> <<>>,
                 outer |-> [h |-> NilPointer, wroteHeaders |-> FALSE],
                 inner |-> [h |-> NilPointer, wroteHeaders |-> FALSE],
                 header |-> EmptyHeader, wire |-> Uncommitted,
                 calls |-> <<>>, wrote |-> FALSE]

\* the single-request and the concurrent-request variables are not used
NestFrame ==
    UNCHANGED <<pc, h, header, wroteHeaders, wire, nAdds, atFlush, lastSet,
                prevSet, lastOp, ncalls, nwrites, concVars, inVars>>

\* the outer middleware's handler function, up to next.ServeHTTP
NestOuterAttach ==
    /\ nested.pc = "start"
    /\ LET a == Alloc(nested.recs)
       IN  nested' = [nested EXCEPT
                         !.pc = "pre",
                         !.recs = (a :> NewResponseHeaders) @@ @,
                         !.ctx = a,
                         !.outer = [h |-> a, wroteHeaders |-> FALSE]]
    /\ NestFrame

\* the inner middleware's handler function, up to next.ServeHTTP: the
\* context of the one request now holds the inner record
NestInnerAttach ==
    /\ nested.pc = "pre"
    /\ LET a == Alloc(nested.recs)
       IN  nested' = [nested EXCEPT
                         !.pc = "handler",
                         !.recs = (a :> NewResponseHeaders) @@ @,
                         !.ctx = a,
                         !.inner = [h |-> a, wroteHeaders |-> FALSE]]
    /\ NestFrame

\* Response(r) for the one request of the chain
NestResponse == nested.ctx

\* code of the chain calls a setter
NestSetter(call) ==
    /\ nested.pc \in NestPositions
    /\ Len(nested.calls) < MaxNestCalls
    /\ nested' = [nested EXCEPT
                     !.recs = [@ EXCEPT ![NestResponse] = ApplyCall(@, call)],
                     !.calls = Append(@, [call |-> call, rec |-> NestResponse,
                                          wrote |-> nested.wrote])]
    /\ NestFrame

\* the wrapper ww (outer or inner) as its methods see it, the header
\* collection being hdr
NestWrapper(ww, hdr) ==
    [h |-> nested.recs[ww.h], header |-> hdr, wroteHeaders |-> ww.wroteHeaders,
     wire |-> nested.wire, nAdds |-> 0, panic |-> FALSE]

\* code of the chain calls Write on the writer it was given: the handler on
\* the inner wrapper, whose ResponseWriter is the outer wrapper; the layer
\* on the outer wrapper
NestWrite ==
    /\ nested.pc \in NestPositions
    /\ IF nested.pc = "handler"
       THEN \E ord2 \in AddOrders(nested.recs[nested.inner.h]),
               ord1 \in AddOrders(nested.recs[nested.outer.h]) :
                LET w2 == writeHXHeader(NestWrapper(nested.inner, nested.header),
                                        ord2)
                    w1 == Write(NestWrapper(nested.outer, w2.header), ord1)
                IN  nested' = [nested EXCEPT
                                  !.inner.wroteHeaders = w2.wroteHeaders,
                                  !.outer.wroteHeaders = w1.wroteHeaders,
                                  !.header = w1.header,
                                  !.wire = w1.wire,
                                  !.wrote = TRUE]
       ELSE \E ord1 \in AddOrders(nested.recs[nested.outer.h]) :
                LET w1 == Write(NestWrapper(nested.outer, nested.header), ord1)
                IN  nested' = [nested EXCEPT
                                  !.outer.wroteHeaders = w1.wroteHeaders,
                                  !.header = w1.header,
                                  !.wire = w1.wire,
                                  !.wrote = TRUE]
    /\ NestFrame

\* the handler returns: the inner middleware calls ww.writeHXHeader and
\* returns to the layer; the request keeps the context the inner
\* middleware gave it
NestInnerEnd ==
    /\ nested.pc = "handler"
    /\ \E ord \in AddOrders(nested.recs[nested.inner.h]) :
         LET w == writeHXHeader(NestWrapper(nested.inner, nested.header), ord)
         IN  nested' = [nested EXCEPT !.pc = "post",
                                      !.inner.wroteHeaders = w.wroteHeaders,
                                      !.header = w.header]
    /\ NestFrame

\* the layer returns: the outer middleware calls ww.writeHXHeader
NestOuterEnd ==
    /\ nested.pc = "post"
    /\ \E ord \in AddOrders(nested.recs[nested.outer.h]) :
         LET w == writeHXHeader(NestWrapper(nested.outer, nested.header), ord)
         IN  nested' = [nested EXCEPT !.pc = "done",
                                      !.outer.wroteHeaders = w.wroteHeaders,
                                      !.header = w.header]
    /\ NestFrame

NestNext ==
    \/ NestOuterAttach
    \/ NestInnerAttach
    \/ \E call \in ConcCalls : NestSetter(call)
    \/ NestWrite
    \/ NestInnerEnd
    \/ NestOuterEnd

NestSpec == NestInit /\ [][NestNext]_vars


(***************************************************************************)
(* Properties.                                                             *)
(***************************************************************************)
\* the flush has occurred: AddHeaders has returned for this request
Flushed == nAdds >= 1

TriggerOps == {"Write", "WriteHeader", "EndOfChain"}

\* some HX header is in the collection hdr
SomeHeader(hdr) == \E n \in HXNameSet : hdr[n] # <<>>

\* C1: for one request, whatever Write calls, WriteHeader calls and
\* end-of-chain flush occur, the record is serialized into the outgoing
\* header collection exactly once: AddHeaders never returns a second time,
\* the request is in the flushed state exactly when it has returned, and
\* every trigger that returns leaves the collection as the first one left it.
C1_SerializedExactlyOnce ==
    /\ nAdds <= 1
    /\ wroteHeaders <=> nAdds = 1
    /\ (lastOp.op \in TriggerOps /\ ~lastOp.err) =>
           /\ nAdds = 1
           /\ header = atFlush.after

\* a second Write, and then the end of the chain, after a flush that added
\* headers
C1_Witness ==
    /\ pc = "done"
    /\ nwrites = 2
    /\ SomeHeader(header)

\* C2: the wrapped ResponseWriter's Write or WriteHeader is never called
\* while the request is unflushed: what it commits on its first call is the
\* header collection with the record's HX headers already added.
C2_FlushBeforeDelegate ==
    wire.committed =>
        /\ wroteHeaders
        /\ Flushed
        /\ wire.header = atFlush.after
        /\ wire.header \in AddHeadersOutcomes(atFlush.h, atFlush.before)

\* the first Write or WriteHeader reached the wrapped writer with HX headers
C2_Witness ==
    /\ wire.committed
    /\ SomeHeader(wire.header)
    /\ nwrites = 1

\* C3: a request whose handler chain returned normally is in the flushed
\* state, with the headers of its record in the outgoing header collection.
C3_ReturnedChainIsFlushed ==
    pc \in {"done", "flushpanic"} =>
        /\ wroteHeaders
        /\ header \in AddHeadersOutcomes(atFlush.h, atFlush.before)


\* the header name of each scalar field that a string backs
StringFields ==
    [PushURL |-> "HX-Push-Url", Redirect |-> "HX-Redirect",
     ReplaceURL |-> "HX-Replace-Url", Reswap |-> "HX-Reswap",
     Retarget |-> "HX-Retarget", Reselect |-> "HX-Reselect"]

\* the member k of a JSON object, "" when it has none
Member(obj, k) == IF k \in DOMAIN obj THEN obj[k] ELSE ""

\* the header value v shows the path and the sub-fields (other than the
\* Values payload) of the location descriptor loc
ShowsLocation(v, loc) ==
    IF "plain" \in DOMAIN v
    THEN /\ v.plain = loc.Path
         /\ loc.Source = "" /\ loc.Event = "" /\ loc.Handler = ""
         /\ loc.Target = "" /\ loc.Swap = "" /\ DOMAIN loc.Headers = {}
    ELSE /\ Member(v.json, "path") = loc.Path
         /\ Member(v.json, "source") = loc.Source
         /\ Member(v.json, "event") = loc.Event
         /\ Member(v.json, "handler") = loc.Handler
         /\ Member(v.json, "target") = loc.Target
         /\ Member(v.json, "swap") = loc.Swap
         /\ IF DOMAIN loc.Headers = {} THEN "headers" \notin DOMAIN v.json
            ELSE "headers" \in DOMAIN v.json /\ v.json["headers"] = loc.Headers

\* C4: last write wins.  For every scalar field, the flushed header is what
\* the last setter call before the flush passed: absent when that is the
\* empty sentinel, otherwise present once with that value, so that no value
\* passed by an earlier call appears in its place.
C4_LastWriteWins ==
    Flushed =>
        LET out == atFlush.after
            last == atFlush.last
            prev == atFlush.prev
        IN  /\ \A f \in DOMAIN StringFields :
                /\ out[StringFields[f]] =
                       IF last[f] = "" THEN <<>> ELSE <<Plain(last[f])>>
                /\ prev[f] # last[f] =>
                       \A i \in DOMAIN out[StringFields[f]] :
                           out[StringFields[f]][i] # Plain(prev[f])
            /\ out["HX-Refresh"] =
                   IF last.Refresh THEN <<Plain("true")>> ELSE <<>>
            /\ IF last.Location.Path = "" THEN out["HX-Location"] = <<>>
               ELSE /\ Len(out["HX-Location"]) = 1
                    /\ ShowsLocation(out["HX-Location"][1], last.Location)
                    /\ prev.Location.Path # last.Location.Path =>
                           ~ShowsLocation(out["HX-Location"][1], prev.Location)

\* a flush after two calls of one setter with different non-empty values,
\* and one after a call that cleared a value set before
C4_Witness ==
    /\ Flushed
    /\ \/ atFlush.prev.Retarget = "#main" /\ atFlush.last.Retarget = "#nav"
       \/ atFlush.prev.Redirect = "/a" /\ atFlush.last.Redirect = ""
       \/ atFlush.prev.Location.Path = "/b" /\ atFlush.last.Location.Path = "/a"

\* C5: the headers written at the flush are the serialization of the record
\* as the handler chain left it at the moment of the first trigger: every
\* mutation made before that trigger is in them.
C5_FlushSerializesRecordAtTrigger ==
    Flushed => atFlush.after \in AddHeadersOutcomes(atFlush.h, atFlush.before)

\* a flush of a record that two setter calls had mutated
C5_Witness ==
    /\ Flushed
    /\ atFlush.h.Retarget = "#main"
    /\ atFlush.h.Trigger # <<>>
    /\ atFlush.after["HX-Retarget"] # <<>>
    /\ atFlush.after["HX-Trigger"] # <<>>

\* C6: after the flush, a setter call is accepted (a call whose payload can
\* be encoded returns no error) and neither it nor a later Write or
\* WriteHeader adds, changes or removes a header: the outgoing header
\* collection stays as the flush left it.
C6_PostFlushMutationIsInert ==
    Flushed =>
        /\ header = atFlush.after
        /\ (lastOp.op \in SetterOps /\ lastOp.err) =>
               /\ lastOp.op \in {"Location", "Trigger", "TriggerAfterSettle",
                                 "TriggerAfterSwap"}
               /\ IF lastOp.op = "Location" THEN lastOp.arg.Values = "chan"
                  ELSE lastOp.arg.data = "chan"

\* a setter changed the record after the flush, and a Write followed
C6_Witness ==
    /\ Flushed
    /\ h.Retarget # atFlush.h.Retarget
    /\ h.Trigger # atFlush.h.Trigger
    /\ lastOp.op = "Write"
    /\ nwrites = 2


\* the empty sentinel of the field behind the header `name` (empty path,
\* empty string, false, empty mapping)
AtSentinel(rec, name) ==
    CASE name = "HX-Location"    -> rec.Location.Path = ""
      [] name = "HX-Push-Url"    -> rec.PushURL = ""
      [] name = "HX-Redirect"    -> rec.Redirect = ""
      [] name = "HX-Refresh"     -> rec.Refresh = FALSE
      [] name = "HX-Replace-Url" -> rec.ReplaceURL = ""
      [] name = "HX-Reswap"      -> rec.Reswap = ""
      [] name = "HX-Retarget"    -> rec.Retarget = ""
      [] name = "HX-Reselect"    -> rec.Reselect = ""
      [] name = "HX-Trigger"     -> DOMAIN rec.Trigger = {}
      [] name = "HX-Trigger-After-Settle" -> DOMAIN rec.TriggerAfterSettle = {}
      [] name = "HX-Trigger-After-Swap"   -> DOMAIN rec.TriggerAfterSwap = {}

\* C7: empty suppression.  One AddHeaders call on a fresh header collection
\* emits each of the eleven HX headers exactly once when its field is not
\* empty and not at all when the field is at its empty sentinel; for the
\* record on which no setter was called it adds no header.
C7_EmptySuppression ==
    (pc = "direct" /\ nAdds = 1) =>
        /\ \A n \in HXNameSet :
               Len(header[n]) = IF AtSentinel(h, n) THEN 0 ELSE 1
        /\ h = NewResponseHeaders => header = EmptyHeader

\* a serialized record with every scalar set, a location, one empty mapping
\* and two non-empty ones
C7_Witness ==
    /\ pc = "direct"
    /\ nAdds = 1
    /\ \A n \in HXNameSet \ {"HX-Trigger-After-Settle"} : Len(header[n]) = 1
    /\ header["HX-Trigger-After-Settle"] = <<>>

TriggerFields ==
    [Trigger |-> "HX-Trigger", TriggerAfterSettle |-> "HX-Trigger-After-Settle",
     TriggerAfterSwap |-> "HX-Trigger-After-Swap"]

\* the strings of seq joined by commas
RECURSIVE CommaJoined(_)
CommaJoined(seq) ==
    IF seq = <<>> THEN ""
    ELSE IF Len(seq) = 1 THEN seq[1]
    ELSE seq[1] \o "," \o CommaJoined(Tail(seq))

\* the sequences in which each element of S occurs exactly once
Orderings(S) ==
    {o \in [1..Cardinality(S) -> S] : \A i, j \in DOMAIN o : i # j => o[i] # o[j]}

AllNil(ts) == \A e \in DOMAIN ts : ts[e] = NilJSON

\* C8: for each trigger mapping whose payloads are all nil, the flushed
\* header value is the plain comma-joined list of the event names, each
\* name of the mapping occurring in it exactly once, in some order.
C8_PlainListOfEventNames ==
    Flushed =>
        \A f \in DOMAIN TriggerFields :
            LET ts == atFlush.h[f]
            IN  (DOMAIN ts # {} /\ AllNil(ts)) =>
                    \E o \in Orderings(DOMAIN ts) :
                        atFlush.after[TriggerFields[f]] = <<Plain(CommaJoined(o))>>

\* C9: for each trigger mapping with at least one non-nil payload, the
\* header value is one JSON object with a member for every event name of
\* the mapping, whose value is the entry's payload, or null for an entry
\* without payload; it is never the plain list.
C9_JSONObjectWhenAnyPayload ==
    (pc = "direct" /\ nAdds = 1) =>
        \A f \in DOMAIN TriggerFields :
            LET ts == h[f]
                out == header[TriggerFields[f]]
            IN  ~AllNil(ts) =>
                    /\ Len(out) = 1
                    /\ DOMAIN out[1] = {"json"}
                    /\ DOMAIN out[1].json = DOMAIN ts
                    /\ \A e \in DOMAIN ts :
                           out[1].json[e] =
                               IF ts[e] = NilJSON THEN "null" ELSE ts[e]

\* a serialized mapping with one payload and two entries without
C9_Witness ==
    /\ pc = "direct"
    /\ nAdds = 1
    /\ h.Trigger = [a |-> "1"] @@ ("" :> NilJSON) @@ [b |-> NilJSON]
    /\ header["HX-Trigger"] # <<>>

\* a step is a call of the trigger setter of the mapping f that returned
\* no error
TriggerSetterStep(f) ==
    /\ lastOp'.op = f
    /\ ~lastOp'.err
    /\ ncalls' = ncalls + 1

\* C10: the trigger setters upsert by event name.  A call that returns no
\* error leaves its mapping with the passed name bound to the encoded
\* payload of this call, in place of the payload (if any) it had, with every
\* other entry, the two other mappings and every other field as before; so
\* a name is never entered twice, and the flush writes each trigger header
\* at most once.
C10_TriggerSettersUpsert ==
    /\ [][\A f \in DOMAIN TriggerFields :
            TriggerSetterStep(f) =>
                LET name == lastOp'.arg.name
                    payload == IF lastOp'.arg.data = NilData THEN NilJSON
                               ELSE jsonMarshal(lastOp'.arg.data).bytes
                IN  /\ DOMAIN h'[f] = DOMAIN h[f] \cup {name}
                    /\ h'[f][name] = payload
                    /\ \A e \in DOMAIN h[f] \ {name} : h'[f][e] = h[f][e]
                    /\ \A g \in DOMAIN h \ {f} : h'[g] = h[g]]_vars
    /\ [](Flushed =>
            \A f \in DOMAIN TriggerFields :
                Len(atFlush.after[TriggerFields[f]]) <= 1)

\* the same setter was called twice with the same event name: the second
\* call replaced the nil payload of the first
C10_Witness ==
    /\ lastOp.op = "TriggerAfterSwap"
    /\ ~lastOp.err
    /\ lastOp.arg.name = "a"
    /\ lastOp.arg.old = NilJSON
    /\ lastOp.arg.data = "int"
    /\ h.TriggerAfterSwap = [a |-> "1"]

\* the sub-field k of the location descriptor loc is set: not empty, not nil
SubFieldSet(loc, k) ==
    CASE k = "values"  -> loc.Values # NilJSON /\ loc.Values # ""
      [] k = "headers" -> DOMAIN loc.Headers # {}
      [] OTHER         -> LocationMember(loc, k) # ""

\* C11: with a non-empty path, HX-Location is the bare path exactly when
\* every other sub-field of the location is empty or nil; when some other
\* sub-field is set it is the JSON text of the descriptor, with the path and
\* every set sub-field as members, and never the bare path.
C11_LocationShortOrLongForm ==
    (pc = "direct" /\ nAdds = 1 /\ h.Location.Path # "") =>
        LET loc == h.Location
            out == header["HX-Location"]
        IN  /\ Len(out) = 1
            /\ IF \A k \in LocationKeys \ {"path"} : ~SubFieldSet(loc, k)
               THEN out[1] = Plain(loc.Path)
               ELSE /\ DOMAIN out[1] = {"json"}
                    /\ \A k \in LocationKeys :
                           SubFieldSet(loc, k) =>
                               /\ k \in DOMAIN out[1].json
                               /\ out[1].json[k] = LocationMember(loc, k)

\* C12: Location called with a non-nil Values payload stores the payload's
\* JSON encoding in the record's location when it returns, and the flush
\* that follows writes HX-Location in the JSON form with the values member.
C12_LocationEncodesValuesAtCall ==
    /\ (lastOp.op = "Location" /\ ~lastOp.err
            /\ lastOp.arg.Values # NilData) =>
           h.Location.Values = jsonMarshal(lastOp.arg.Values).bytes
    /\ (Flushed /\ atFlush.last.Location.Values = "int"
            /\ atFlush.last.Location.Path # "") =>
           LET out == atFlush.after["HX-Location"]
           IN  /\ Len(out) = 1
               /\ DOMAIN out[1] = {"json"}
               /\ Member(out[1].json, "values") = "1"

\* the user payload of a call of one of the setters that encode: the data of
\* a trigger setter, the Values of Location
PayloadOf(call) ==
    IF call.op = "Location" THEN call.arg.Values ELSE call.arg.data

EncodingOps == {"Location", "Trigger", "TriggerAfterSettle", "TriggerAfterSwap"}

\* C13: a setter that received a payload that cannot be JSON-encoded returns
\* an error at that call and leaves the record exactly as it was.
C13_UnencodablePayloadFailsAtCall ==
    [][(/\ ncalls' = ncalls + 1
        /\ lastOp'.op \in EncodingOps
        /\ PayloadOf(lastOp') # NilData
        /\ jsonMarshal(PayloadOf(lastOp')).err) =>
            /\ lastOp'.err
            /\ h' = h]_vars

RECURSIVE Replay(_)
Replay(calls) ==
    IF calls = <<>> THEN NewResponseHeaders
    ELSE ApplyCall(Replay(SubSeq(calls, 1, Len(calls) - 1)), calls[Len(calls)])

\* C15: isolation.  Under every interleaving of two requests, the record of
\* each request is what the request's own setter calls made of a fresh
\* record, and the headers flushed for it are the serialization of the
\* record its own calls before the flush produced: nothing a request holds
\* depends on the calls made on the other one.
C15_Isolation ==
    \A r \in DOMAIN reqs :
        reqs[r].pc # "unattached" =>
            /\ heap[reqs[r].ctx] = Replay(reqs[r].calls)
            /\ \A q \in DOMAIN reqs \ {r} : reqs[q].ctx # reqs[r].ctx
            /\ IF reqs[r].wroteHeaders
               THEN reqs[r].header \in
                        AddHeadersOutcomes(
                            Replay(SubSeq(reqs[r].calls, 1, reqs[r].flushedAt)),
                            EmptyHeader)
               ELSE reqs[r].header = EmptyHeader

\* both requests are in their handler chains with setter calls made on
\* each; one has flushed, the other has not, and their headers differ
C15_Witness ==
    /\ reqs # <<>>
    /\ reqs["r1"].pc = "handler" /\ reqs["r2"].pc = "handler"
    /\ reqs["r1"].header["HX-Retarget"] = <<Plain("#main")>>
    /\ reqs["r1"].calls # <<>>
    /\ Len(reqs["r2"].calls) = 2
    /\ heap[reqs["r2"].ctx].Retarget = "#nav"
    /\ ~reqs["r2"].wroteHeaders

\* the request header a text field of the snapshot is taken from
SnapshotTexts ==
    [CurrentURL |-> "HX-Current-Url", Prompt |-> "HX-Prompt",
     Target |-> "HX-Target", TriggerName |-> "HX-Trigger-Name",
     Trigger |-> "HX-Trigger"]

\* the request header a boolean field of the snapshot is taken from
SnapshotFlags ==
    [Boosted |-> "HX-Boosted",
     HistoryRestoreRequest |-> "HX-History-Restore-Request"]

\* C16: Request(r) returns nil exactly when the HX-Request header is not
\* "true"; otherwise it returns a snapshot whose two boolean fields are true
\* exactly when their headers are "true" and whose five text fields hold
\* their headers' values verbatim; the result is the same with and without
\* the middleware, and the call always returns.
C16_RequestSnapshot ==
    lastOp.op = "Request" =>
       /\ snapshot # NotAsked
       /\ snapshot = NilSnapshot <=> Get(request, "HX-Request") # "true"
       /\ snapshot # NilSnapshot =>
            /\ \A f \in DOMAIN SnapshotFlags :
                   snapshot[f] <=> (request[SnapshotFlags[f]] # <<>>
                                    /\ request[SnapshotFlags[f]][1] = "true")
            /\ \A f \in DOMAIN SnapshotTexts :
                   snapshot[f] = IF request[SnapshotTexts[f]] = <<>> THEN ""
                                 ELSE request[SnapshotTexts[f]][1]
            /\ DOMAIN snapshot = DOMAIN SnapshotFlags \cup DOMAIN SnapshotTexts

\* a boosted htmx request without the middleware: the snapshot is returned
\* with Boosted set and the prompt copied
C16_Witness ==
    /\ lastOp.op = "Request"
    /\ pc = "unattached"
    /\ snapshot # NilSnapshot
    /\ snapshot.Boosted
    /\ ~snapshot.HistoryRestoreRequest
    /\ snapshot.Prompt = "x"
    /\ request["HX-History-Restore-Request"] = <<"1">>

\* C17: the flush never panics for a record that the exported setters
\* produced: no Write, WriteHeader or end-of-chain flush aborts in the
\* serialization of the location or of a trigger mapping.
C17_FlushNeverPanics ==
    /\ pc \notin {"flushpanic", "aborted"}
    /\ lastOp.op \in TriggerOps => ~lastOp.err

\* C18: when the location's path is empty, AddHeaders returns without
\* adding an HX-Location header, whatever the other sub-fields hold.
C18_NoLocationWithoutPath ==
    (pc \in {"direct", "panicked"} /\ lastOp.op = "AddHeaders"
        /\ h.Location.Path = "") =>
            /\ ~lastOp.err
            /\ nAdds >= 1
            /\ header["HX-Location"] = <<>>

\* a serialized record whose location has a target, values and headers but
\* no path
C18_Witness ==
    /\ pc = "direct"
    /\ nAdds = 1
    /\ h.Location.Path = ""
    /\ h.Location.Target = "#main"
    /\ h.Location.Values # NilJSON
    /\ DOMAIN h.Location.Headers # {}

\* the location that holds the path p and nothing else
PathOnly(p) == [EmptyLocation EXCEPT !.Path = p]

\* C19: LocationPath(r, p) replaces the whole location.  When it returns,
\* the record's location is the path p with every other sub-field empty,
\* whatever was set before; and when it was the last location setter called
\* before the flush, HX-Location is the bare path p, or absent for an empty p.
C19_LocationPathReplacesLocation ==
    /\ lastOp.op = "LocationPath" => h.Location = PathOnly(lastOp.arg)
    /\ (Flushed /\ atFlush.last.Location = PathOnly(atFlush.last.Location.Path)) =>
           atFlush.after["HX-Location"] =
               IF atFlush.last.Location.Path = "" THEN <<>>
               ELSE <<Plain(atFlush.last.Location.Path)>>

\* LocationPath("/a") was called after a location with a target had been
\* set, and the flush followed
C19_Witness ==
    /\ Flushed
    /\ atFlush.prev.Location.Target = "#main"
    /\ atFlush.prev.Location.Path = "/a"
    /\ atFlush.last.Location = PathOnly("/a")
    /\ atFlush.h.Location = PathOnly("/a")
    /\ atFlush.after["HX-Location"] = <<Plain("/a")>>

\* C20: setters are deferred.  No setter call changes the outgoing header
\* collection, the flushed flag or what the wrapped writer committed; so as
\* long as no Write, WriteHeader or end-of-chain flush has happened, the
\* collection holds no HX header, however many setters were called.
C20_SettersAreDeferred ==
    /\ [][(ncalls' = ncalls + 1) =>
              /\ header' = header
              /\ wroteHeaders' = wroteHeaders
              /\ wire' = wire
              /\ nAdds' = nAdds]_vars
    /\ []((pc = "handler" /\ nwrites = 0) =>
              /\ header = EmptyHeader
              /\ ~wroteHeaders)

\* two setters were called, the record holds their values, and nothing has
\* triggered the flush
C20_Witness ==
    /\ pc = "handler"
    /\ nwrites = 0
    /\ ncalls = 2
    /\ h.Reselect = "#nav"
    /\ h.Trigger # <<>>
    /\ header = EmptyHeader

\* C23: the event names of each trigger mapping only grow: no step of the
\* request, in particular no call of a trigger setter with or without data,
\* removes a name from a mapping; so a mapping that got a name before the
\* flush is not empty at the flush, and its header is emitted.
C23_EventNamesOnlyGrow ==
    /\ [][pc = "handler" =>
              \A f \in DOMAIN TriggerFields : DOMAIN h[f] \subseteq DOMAIN h'[f]]_vars
    /\ [](Flushed =>
              \A f \in DOMAIN TriggerFields :
                  DOMAIN atFlush.h[f] # {} =>
                      Len(atFlush.after[TriggerFields[f]]) = 1)

\* Trigger("a", nil) was called when the mapping held a payload under "a":
\* the name stayed in the mapping, now without payload
C23_Witness ==
    /\ lastOp.op = "Trigger"
    /\ ~lastOp.err
    /\ lastOp.arg.name = "a"
    /\ lastOp.arg.old = "1"
    /\ lastOp.arg.data = NilData
    /\ h.Trigger = [a |-> NilJSON]

\* the sequence s is the beginning of the sequence t
IsPrefix(s, t) == Len(s) <= Len(t) /\ SubSeq(t, 1, Len(s)) = s

\* C22: the flush only appends.  Every value that the outgoing header
\* collection held when the flush fired, under an HX name or any other
\* name, is still there after it, in its place, before whatever the flush
\* added; and the step in which the flush happens leaves the record as it is.
C22_FlushOnlyAppends ==
    /\ [](Flushed =>
              \A n \in DOMAIN atFlush.before :
                  /\ n \in DOMAIN atFlush.after
                  /\ IsPrefix(atFlush.before[n], atFlush.after[n])
                  /\ n \notin HXNameSet => atFlush.after[n] = atFlush.before[n])
    /\ [][nAdds' # nAdds => h' = h]_vars

\* the handler had set HX-Retarget and Content-Type itself and had called
\* Retarget: the flush added the record's selector after the handler's
C22_Witness ==
    /\ Flushed
    /\ atFlush.before["HX-Retarget"] = <<Plain("#side")>>
    /\ atFlush.after["HX-Retarget"] = <<Plain("#side"), Plain("#main")>>
    /\ "Content-Type" \in DOMAIN atFlush.before
    /\ atFlush.after["Content-Type"] = <<Plain("text/html")>>

\* the wrapper given to the code that runs at the position p of the chain
WriterAt(p) == IF p = "handler" THEN nested.inner ELSE nested.outer

\* the values of a header, as a set
ValuesOf(hdr, name) == {hdr[name][i] : i \in DOMAIN hdr[name]}

\* the setter call c is in the headers hdr
Emitted(c, hdr) ==
    IF c.op = "Retarget" THEN Plain(c.arg) \in ValuesOf(hdr, "HX-Retarget")
    ELSE ValuesOf(hdr, "HX-Trigger") # {}

\* C21: between a middleware's attachment and its return, Response(r) is the
\* record that the writer wrapper of the running code serializes at its
\* flush, also when NewMiddleware is applied twice; and when the chain has
\* returned, every setter call made before the first Write or WriteHeader
\* (and not overwritten by a later such call of the same setter) is in the
\* emitted headers.
C21_LookupIsTheSerializedRecord ==
    /\ nested.pc \in NestPositions => NestResponse = WriterAt(nested.pc).h
    /\ nested.pc = "done" =>
           \A i \in DOMAIN nested.calls :
               LET c == nested.calls[i]
               IN  (/\ ~c.wrote
                    /\ \A j \in DOMAIN nested.calls :
                           (j > i /\ ~nested.calls[j].wrote) =>
                               nested.calls[j].call.op # c.call.op) =>
                       Emitted(c.call, nested.header)

====
